---- MODULE Spec2Model ----
(***************************************************************************)
(* Trend-based ranking event detection (src/analyzers/event_detector.py).  *)
(*                                                                         *)
(* Times are minutes.  Fractions (consistency, percentages) are kept as    *)
(* numerator/denominator pairs and compared by cross-multiplication; the   *)
(* Python code computes them in binary floating point, which agrees with   *)
(* the exact comparison for every value in the ranges used here.           *)
(***************************************************************************)
EXTENDS Integers, Sequences, FiniteSets, TLC

VARIABLES
    cfg,          \* the EventDetector instance (self.*)
    tbl,          \* ranking table: pair -> sequence of snapshot rows
    clock,        \* datetime.utcnow() of the detection run, minutes
    pc,           \* position of detect_events: idle, running, returned, raised
    todo,         \* pairs the loops of detect_events have not reached yet
    cur_pair,     \* pair of the last _analyze_category_trend call
    rankings,     \* its local `rankings`
    trend_map,    \* its local `trend_map`
    selection,    \* its local `selection`
    pair_events,  \* the list it returned
    events,       \* local `events` of detect_events
    result,       \* value detect_events returned to its caller
    runs,         \* number of detect_events calls started
    call,         \* a direct call of one method: name, arguments, return value
    past_results,     \* what the completed detect_events calls returned, oldest first
    ranking_events,   \* table ranking_events: the stored RankingEvent rows
    event_insights,   \* table event_insights: event_id of each stored row
    procs             \* locals of the running flows and generator calls

stores == <<past_results, ranking_events, event_insights, procs>>

vars == <<cfg, tbl, clock, pc, todo, cur_pair, rankings, trend_map,
          selection, pair_events, events, result, runs, call,
          past_results, ranking_events, event_insights, procs>>

-----------------------------------------------------------------------------
(* Bounds *)

MaxSnapshots == 4
MaxRuns == 1
\* direct calls of _calculate_severity: change amounts, ranks, and the
\* number of non-zero moves behind a consistency value
MaxChange == 22
MaxRank == 35
MaxMoves == 6
\* repeated detect_events calls over the same tables
MaxRepeats == 2

-----------------------------------------------------------------------------
(* Values *)

\* Python None, for nullable columns and absent results
None == -1000000

Abs(x) == IF x < 0 THEN -x ELSE x

Falsy(x) == x = None \/ x = 0

Frac(n, d) == [num |-> n, den |-> d]

\* a >= b for fractions with positive denominators
FracGE(a, b) == a.num * b.den >= b.num * a.den

MinutesPerHour == 60
MinutesPerDay == 1440

RankTypes == {"RANK_SURGE", "RANK_DROP", "STEADY_RISE", "STEADY_DECLINE"}

-----------------------------------------------------------------------------
(* Settings *)

AMAZON_SCRAPE_INTERVAL_HOURS == 1
EVENT_TREND_ANALYSIS_HOURS == 12
EVENT_TREND_MIN_DATA_POINTS == 3
EVENT_TREND_CONSISTENCY_THRESHOLD == Frac(3, 5)
EVENT_TREND_WINDOWS_HOURS == {1, 6, 24}
EVENT_SURGE_WINDOW_HOURS == 1
EVENT_STEADY_WINDOW_HOURS == 24
EVENT_STEADY_CONSISTENCY_MIN == Frac(4, 5)
EVENT_RANK_THRESHOLDS ==
    << [range |-> <<1, 5>>,    threshold |-> 2],
       [range |-> <<6, 10>>,   threshold |-> 3],
       [range |-> <<11, 20>>,  threshold |-> 5],
       [range |-> <<21, 30>>,  threshold |-> 7],
       [range |-> <<31, 50>>,  threshold |-> 10],
       [range |-> <<51, 100>>, threshold |-> 15] >>
EVENT_RANK_CHANGE_PCT_THRESHOLD == 30
EVENT_PRICE_CHANGE_PCT_THRESHOLD == 20
EVENT_REVIEW_SURGE_THRESHOLD == 100
EVENT_LOOKBACK_DAYS == 7
EVENT_LOOKFORWARD_DAYS == 3

-----------------------------------------------------------------------------
(* Results of the helpers: a value, None, or a raised exception *)

\* None where the value, when present, is a record
NoneRec == [kind |-> "None"]
NoTrend == NoneRec
NoEvent == NoneRec
Raise == [kind |-> "raise"]

-----------------------------------------------------------------------------
(* _calculate_trend *)

\* sorted(rankings, key=lambda r: r.collected_at): stable, ascending
InsertAsc(r, s) ==
    LET k == Cardinality({i \in 1..Len(s) : s[i].collected_at <= r.collected_at})
    IN SubSeq(s, 1, k) \o <<r>> \o SubSeq(s, k + 1, Len(s))

RECURSIVE SortedPrefix(_, _)
SortedPrefix(s, n) ==
    IF n = 0 THEN <<>> ELSE InsertAsc(s[n], SortedPrefix(s, n - 1))

sorted_by_collected_at(s) == SortedPrefix(s, Len(s))

\* the non-zero moves between consecutive snapshots (direction_changes)
direction_changes(s) == {i \in 2..Len(s) : s[i - 1].rank # s[i].rank}

\* variant: the sign of the primary direction is inverted
primary_direction_flipped(total_change) == IF total_change > 0 THEN -1 ELSE 1

primary_direction(total_change) == IF total_change > 0 THEN 1 ELSE -1

\* consistent_count / len(direction_changes)
trend_consistency(s) ==
    LET total_change == s[1].rank - s[Len(s)].rank
        dir(i) == IF s[i - 1].rank - s[i].rank > 0 THEN 1 ELSE -1
        consistent_count ==
            Cardinality({i \in direction_changes(s) :
                           dir(i) = primary_direction(total_change)})
    IN Frac(consistent_count, Cardinality(direction_changes(s)))

\* the dictionary returned for the time-ordered snapshots s
trend_record(s) ==
    LET n == Len(s)
        start_rank == s[1].rank
        end_rank == s[n].rank
        total_change == start_rank - end_rank
        time_span == s[n].collected_at - s[1].collected_at
    IN [kind |-> "trend",
        direction |-> IF total_change > 0 THEN "rising"
                      ELSE IF total_change < 0 THEN "falling"
                      ELSE "stable",
        total_change |-> total_change,
        start_rank |-> start_rank,
        end_rank |-> end_rank,
        consistency |-> trend_consistency(s),
        avg_change_per_hour |->
            IF time_span > 0
            THEN Frac(Abs(total_change) * MinutesPerHour, time_span)
            ELSE Frac(0, 1),
        data_points |-> n]

\* variant: the snapshots are taken in the order given, without sorting
calculate_trend_unsorted(rks) ==
    IF Len(rks) < 2 THEN NoTrend
    ELSE IF \E i \in 1..Len(rks) : rks[i].rank = None THEN Raise
    ELSE IF direction_changes(rks) = {} THEN NoTrend
    ELSE trend_record(rks)

\* variant: snapshots without any move still give a (stable) trend
calculate_trend_keeps_flat(rks) ==
    IF Len(rks) < 2 THEN NoTrend
    ELSE
      LET sorted_rankings == sorted_by_collected_at(rks)
      IN IF \E i \in 1..Len(rks) : sorted_rankings[i].rank = None THEN Raise
         ELSE trend_record(sorted_rankings)

calculate_trend(rks) ==
    IF Len(rks) < 2 THEN NoTrend
    ELSE
      LET sorted_rankings == sorted_by_collected_at(rks)
      IN IF \E i \in 1..Len(rks) : sorted_rankings[i].rank = None THEN Raise
         ELSE IF direction_changes(sorted_rankings) = {} THEN NoTrend
         ELSE trend_record(sorted_rankings)

-----------------------------------------------------------------------------
(* _get_rank_threshold, _trend_meets_thresholds *)

\* variant: the upper end of a tier's range is excluded
RECURSIVE FirstTier_exclusive(_, _, _)
FirstTier_exclusive(tiers, i, rank) ==
    IF i > Len(tiers) THEN 15
    ELSE IF tiers[i].range[1] <= rank /\ rank < tiers[i].range[2]
         THEN tiers[i].threshold
         ELSE FirstTier_exclusive(tiers, i + 1, rank)

RECURSIVE FirstTier(_, _, _)
FirstTier(tiers, i, rank) ==
    IF i > Len(tiers) THEN 15
    ELSE IF tiers[i].range[1] <= rank /\ rank <= tiers[i].range[2]
         THEN tiers[i].threshold
         ELSE FirstTier(tiers, i + 1, rank)

\* variant: a detector without configured tiers requires no minimum change
get_rank_threshold_no_fallback(c, rank) ==
    IF Len(c.rank_thresholds) = 0 THEN 0
    ELSE FirstTier(c.rank_thresholds, 1, rank)

get_rank_threshold(c, rank) == FirstTier(c.rank_thresholds, 1, rank)

\* variant: the consistency precondition is skipped
trend_meets_thresholds_no_consistency(c, trend) ==
    IF Abs(trend.total_change) >= get_rank_threshold(c, trend.end_rank)
    THEN TRUE
    ELSE IF c.use_hybrid_threshold /\ trend.start_rank > 0
            /\ Abs(trend.total_change) * 100
                 >= c.rank_change_pct_threshold * trend.start_rank
         THEN TRUE
    ELSE FALSE

\* variant: the percentage gate is evaluated whatever use_hybrid_threshold is
trend_meets_thresholds_always_pct(c, trend) ==
    IF ~FracGE(trend.consistency, c.trend_consistency_threshold) THEN FALSE
    ELSE IF Abs(trend.total_change) >= get_rank_threshold(c, trend.end_rank)
         THEN TRUE
    ELSE IF trend.start_rank > 0
            /\ Abs(trend.total_change) * 100
                 >= c.rank_change_pct_threshold * trend.start_rank
         THEN TRUE
    ELSE FALSE

trend_meets_thresholds(c, trend) ==
    IF ~FracGE(trend.consistency, c.trend_consistency_threshold) THEN FALSE
    ELSE IF Abs(trend.total_change) >= get_rank_threshold(c, trend.end_rank)
         THEN TRUE
    ELSE IF c.use_hybrid_threshold /\ trend.start_rank > 0
            /\ Abs(trend.total_change) * 100
                 >= c.rank_change_pct_threshold * trend.start_rank
         THEN TRUE
    ELSE FALSE

-----------------------------------------------------------------------------
(* _calculate_trends_by_window *)

\* variant: a window ends right before the latest snapshot
window_rankings_before_latest(rks, now, window_hours) ==
    SelectSeq(rks, LAMBDA r :
                /\ r.collected_at >= now - window_hours * MinutesPerHour
                /\ r.collected_at < now)

\* variant: a window reaches one scrape interval further back
window_rankings_padded(rks, now, window_hours) ==
    SelectSeq(rks, LAMBDA r :
                r.collected_at >= now - (window_hours
                                          + AMAZON_SCRAPE_INTERVAL_HOURS)
                                        * MinutesPerHour)

window_rankings(rks, now, window_hours) ==
    SelectSeq(rks, LAMBDA r :
                r.collected_at >= now - window_hours * MinutesPerHour)

\* variant: a window is evaluated only if the snapshots span it
window_trend_needs_span(c, rks, now, w) ==
    IF Len(window_rankings(rks, now, w)) < c.trend_min_data_points
         \/ \A i \in 1..Len(rks) :
              rks[i].collected_at > now - w * MinutesPerHour
    THEN NoTrend
    ELSE calculate_trend(window_rankings(rks, now, w))

window_trend(c, rks, now, w) ==
    IF Len(window_rankings(rks, now, w)) < c.trend_min_data_points
    THEN NoTrend
    ELSE calculate_trend(window_rankings(rks, now, w))

calculate_trends_by_window(c, rks, now) ==
    IF \E w \in c.trend_windows_hours : window_trend(c, rks, now, w) = Raise
    THEN Raise
    ELSE LET ws == {w \in c.trend_windows_hours :
                      window_trend(c, rks, now, w) # NoTrend}
         IN [kind |-> "map", windows |-> ws,
             trends |-> [w \in ws |-> window_trend(c, rks, now, w)]]

-----------------------------------------------------------------------------
(* _select_trend_for_event *)

NoSelection == NoneRec

Selected(trend, event_type, rule, window) ==
    [kind |-> "selection", trend |-> trend, event_type |-> event_type,
     rule |-> rule, window |-> window]

SetMax(S) == CHOOSE x \in S : \A y \in S : y <= x

passing(c, tm, w) ==
    w \in tm.windows /\ trend_meets_thresholds(c, tm.trends[w])

rise_or_decline(trend) ==
    IF trend.total_change > 0 THEN "STEADY_RISE" ELSE "STEADY_DECLINE"

\* variant: the sign test of the surge type is inverted
surge_or_drop_inverted(trend) ==
    IF trend.total_change < 0 THEN "RANK_SURGE" ELSE "RANK_DROP"

surge_or_drop(trend) ==
    IF trend.total_change > 0 THEN "RANK_SURGE" ELSE "RANK_DROP"

\* steady window: passing and consistency at least the steady floor
steady_rule(c, tm) ==
    LET w == c.steady_window_hours
    IN IF passing(c, tm, w)
          /\ FracGE(tm.trends[w].consistency, c.steady_consistency_min)
       THEN Selected(tm.trends[w], rise_or_decline(tm.trends[w]), "steady", w)
       ELSE NoSelection

\* variant: a surge trend at the steady floor is typed as steady
surge_rule_steady_typed(c, tm) ==
    LET w == c.surge_window_hours
    IN IF passing(c, tm, w)
       THEN Selected(tm.trends[w],
                     IF FracGE(tm.trends[w].consistency, c.steady_consistency_min)
                     THEN rise_or_decline(tm.trends[w])
                     ELSE surge_or_drop(tm.trends[w]),
                     "surge", w)
       ELSE NoSelection

\* surge window: passing
surge_rule(c, tm) ==
    LET w == c.surge_window_hours
    IN IF passing(c, tm, w)
       THEN Selected(tm.trends[w], surge_or_drop(tm.trends[w]), "surge", w)
       ELSE NoSelection

\* variant: the passing trend of the smallest window
fallback_rule_smallest(c, tm) ==
    LET candidates == {w \in tm.windows : passing(c, tm, w)}
    IN IF candidates = {} THEN NoSelection
       ELSE LET window == CHOOSE x \in candidates : \A y \in candidates : x <= y
                trend == tm.trends[window]
            IN Selected(trend,
                        IF FracGE(trend.consistency, c.steady_consistency_min)
                        THEN rise_or_decline(trend)
                        ELSE surge_or_drop(trend),
                        "fallback", window)

\* otherwise the passing trend of the largest window
fallback_rule(c, tm) ==
    LET candidates == {w \in tm.windows : passing(c, tm, w)}
    IN IF candidates = {} THEN NoSelection
       ELSE LET window == SetMax(candidates)
                trend == tm.trends[window]
            IN Selected(trend,
                        IF FracGE(trend.consistency, c.steady_consistency_min)
                        THEN rise_or_decline(trend)
                        ELSE surge_or_drop(trend),
                        "fallback", window)

\* variant: the surge rule is tried before the steady rule
select_trend_for_event_surge_first(c, tm) ==
    IF tm.windows = {} THEN NoSelection
    ELSE IF surge_rule(c, tm) # NoSelection THEN surge_rule(c, tm)
    ELSE IF steady_rule(c, tm) # NoSelection THEN steady_rule(c, tm)
    ELSE fallback_rule(c, tm)

select_trend_for_event(c, tm) ==
    IF tm.windows = {} THEN NoSelection
    ELSE IF steady_rule(c, tm) # NoSelection THEN steady_rule(c, tm)
    ELSE IF surge_rule(c, tm) # NoSelection THEN surge_rule(c, tm)
    ELSE fallback_rule(c, tm)

-----------------------------------------------------------------------------
(* _calculate_severity *)

\* variant: the band boundaries 5, 10, 15 and 20 fall into the lower band
magnitude_points_strict(change_amount) ==
    IF change_amount > 20 THEN 40
    ELSE IF change_amount > 15 THEN 30
    ELSE IF change_amount > 10 THEN 20
    ELSE IF change_amount > 5 THEN 10
    ELSE 0

magnitude_points(change_amount) ==
    IF change_amount >= 20 THEN 40
    ELSE IF change_amount >= 15 THEN 30
    ELSE IF change_amount >= 10 THEN 20
    ELSE IF change_amount >= 5 THEN 10
    ELSE 0

\* variant: ranks up to 30 score like ranks up to 20
rank_points_wide(current_rank) ==
    IF current_rank <= 5 THEN 40
    ELSE IF current_rank <= 10 THEN 30
    ELSE IF current_rank <= 30 THEN 20
    ELSE 0

rank_points(current_rank) ==
    IF current_rank <= 5 THEN 40
    ELSE IF current_rank <= 10 THEN 30
    ELSE IF current_rank <= 20 THEN 20
    ELSE IF current_rank <= 30 THEN 10
    ELSE 0

\* variant: round(consistency * 20), to the nearest integer
consistency_points_rounded(consistency) ==
    (consistency.num * 40 + consistency.den) \div (2 * consistency.den)

\* int(consistency * 20): truncation toward zero of a non-negative value
consistency_points(consistency) == (consistency.num * 20) \div consistency.den

severity_score(change_amount, current_rank, consistency) ==
    magnitude_points(change_amount) + rank_points(current_rank)
      + consistency_points(consistency)

severity_label(score) ==
    IF score >= 80 THEN "critical"
    ELSE IF score >= 60 THEN "high"
    ELSE IF score >= 40 THEN "medium"
    ELSE "low"

calculate_severity(change_amount, current_rank, consistency) ==
    severity_label(severity_score(change_amount, current_rank, consistency))

-----------------------------------------------------------------------------
(* Event records (the event_model constructor) *)

event_model(product_id, category_id, event_type, severity, detected_at) ==
    [product_id |-> product_id,
     category_id |-> category_id,
     event_type |-> event_type,
     severity |-> severity,
     prev_rank |-> None, curr_rank |-> None,
     rank_change |-> None, rank_change_pct |-> NoneRec,
     prev_price |-> None, curr_price |-> None, price_change_pct |-> NoneRec,
     prev_review_count |-> None, curr_review_count |-> None,
     review_change |-> None,
     detected_at |-> detected_at,
     time_window_start |-> detected_at - EVENT_LOOKBACK_DAYS * MinutesPerDay,
     time_window_end |-> detected_at + EVENT_LOOKFORWARD_DAYS * MinutesPerDay,
     context_collected |-> FALSE,
     insight_generated |-> FALSE]

\* _build_rank_event; NoEvent when the trend does not meet the thresholds
build_rank_event(c, pair, trend, event_type, utcnow) ==
    IF ~trend_meets_thresholds(c, trend) THEN NoEvent
    ELSE [event_model(pair[1], pair[2], event_type,
                      calculate_severity(Abs(trend.total_change),
                                         trend.end_rank, trend.consistency),
                      utcnow)
          EXCEPT !.prev_rank = trend.start_rank,
                 !.curr_rank = trend.end_rank,
                 !.rank_change = trend.end_rank - trend.start_rank,
                 !.rank_change_pct =
                     IF trend.start_rank > 0
                     THEN Frac(Abs(trend.total_change) * 100, trend.start_rank)
                     ELSE NoneRec]

-----------------------------------------------------------------------------
(* Auxiliary detectors on the latest two snapshots *)

\* variant: the signed change is compared, so a price drop is never reported
check_price_change_signed(c, pair, current, previous, utcnow) ==
    IF Falsy(current.price) \/ Falsy(previous.price) THEN NoEvent
    ELSE LET price_change == current.price - previous.price
         IN IF price_change * 100
                 < c.price_change_pct_threshold * previous.price
            THEN NoEvent
            ELSE [event_model(pair[1], pair[2], "PRICE_CHANGE",
                              IF price_change * 100 >= 30 * previous.price
                              THEN "medium" ELSE "low",
                              utcnow)
                  EXCEPT !.prev_price = previous.price,
                         !.curr_price = current.price,
                         !.price_change_pct =
                             Frac(price_change * 100, previous.price)]

check_price_change(c, pair, current, previous, utcnow) ==
    IF Falsy(current.price) \/ Falsy(previous.price) THEN NoEvent
    ELSE LET price_change == current.price - previous.price
         IN IF Abs(price_change) * 100
                 < c.price_change_pct_threshold * previous.price
            THEN NoEvent
            ELSE [event_model(pair[1], pair[2], "PRICE_CHANGE",
                              IF Abs(price_change) * 100 >= 30 * previous.price
                              THEN "medium" ELSE "low",
                              utcnow)
                  EXCEPT !.prev_price = previous.price,
                         !.curr_price = current.price,
                         !.price_change_pct =
                             Frac(price_change * 100, previous.price)]

\* variant: the size of the change is compared, so a decrease is reported too
check_review_surge_abs(c, pair, current, previous, utcnow) ==
    IF Falsy(current.review_count) \/ Falsy(previous.review_count) THEN NoEvent
    ELSE LET review_change == current.review_count - previous.review_count
         IN IF Abs(review_change) < c.review_surge_threshold THEN NoEvent
            ELSE [event_model(pair[1], pair[2], "REVIEW_SURGE",
                              IF Abs(review_change) >= 500
                              THEN "high" ELSE "medium",
                              utcnow)
                  EXCEPT !.prev_review_count = previous.review_count,
                         !.curr_review_count = current.review_count,
                         !.review_change = review_change]

check_review_surge(c, pair, current, previous, utcnow) ==
    IF Falsy(current.review_count) \/ Falsy(previous.review_count) THEN NoEvent
    ELSE LET review_change == current.review_count - previous.review_count
         IN IF review_change < c.review_surge_threshold THEN NoEvent
            ELSE [event_model(pair[1], pair[2], "REVIEW_SURGE",
                              IF review_change >= 500 THEN "high" ELSE "medium",
                              utcnow)
                  EXCEPT !.prev_review_count = previous.review_count,
                         !.curr_review_count = current.review_count,
                         !.review_change = review_change]

NoStatus == "None"

\* variant: every change of status is reported
check_stock_change_any(c, pair, current, previous, utcnow) ==
    IF current.stock_status \in {NoStatus, ""}
         \/ previous.stock_status \in {NoStatus, ""} THEN NoEvent
    ELSE IF current.stock_status = previous.stock_status THEN NoEvent
    ELSE event_model(pair[1], pair[2], "STOCK_CHANGE",
                     IF current.stock_status = "out_of_stock"
                     THEN "high" ELSE "medium",
                     utcnow)

check_stock_change(c, pair, current, previous, utcnow) ==
    IF current.stock_status \in {NoStatus, ""}
         \/ previous.stock_status \in {NoStatus, ""} THEN NoEvent
    ELSE IF current.stock_status = previous.stock_status THEN NoEvent
    ELSE IF "out_of_stock" \in {current.stock_status, previous.stock_status}
    THEN event_model(pair[1], pair[2], "STOCK_CHANGE",
                     IF current.stock_status = "out_of_stock"
                     THEN "high" ELSE "medium",
                     utcnow)
    ELSE NoEvent

-----------------------------------------------------------------------------
(* EventDetector.__init__ *)

\* An optional argument is <<>> (None, the default) or <<value>>.
DefaultArgs ==
    [trend_analysis_hours |-> 12,
     trend_min_data_points |-> 3,
     trend_consistency_threshold |-> Frac(3, 5),
     trend_windows_hours |-> <<>>,
     surge_window_hours |-> <<>>,
     steady_window_hours |-> <<>>,
     steady_consistency_min |-> <<>>,
     rank_thresholds |-> <<>>,
     rank_change_pct_threshold |-> 30,
     use_hybrid_threshold |-> TRUE,
     price_change_pct_threshold |-> 20,
     review_surge_threshold |-> 100,
     target_brand_id |-> 1]

EventDetector(a) ==
    LET windows_1 ==
            IF a.trend_windows_hours = <<>>
            THEN (IF a.trend_analysis_hours # EVENT_TREND_ANALYSIS_HOURS
                  THEN {a.trend_analysis_hours}
                  ELSE EVENT_TREND_WINDOWS_HOURS)
            ELSE a.trend_windows_hours[1]
        windows == IF windows_1 = {} THEN {a.trend_analysis_hours} ELSE windows_1
    IN [trend_windows_hours |-> windows,
        trend_analysis_hours |-> SetMax(windows),
        trend_min_data_points |-> a.trend_min_data_points,
        trend_consistency_threshold |-> a.trend_consistency_threshold,
        surge_window_hours |->
            IF a.surge_window_hours # <<>> THEN a.surge_window_hours[1]
            ELSE EVENT_SURGE_WINDOW_HOURS,
        steady_window_hours |->
            IF a.steady_window_hours # <<>> THEN a.steady_window_hours[1]
            ELSE EVENT_STEADY_WINDOW_HOURS,
        steady_consistency_min |->
            IF a.steady_consistency_min # <<>> THEN a.steady_consistency_min[1]
            ELSE EVENT_STEADY_CONSISTENCY_MIN,
        rank_thresholds |->
            IF a.rank_thresholds = <<>> THEN <<>> ELSE a.rank_thresholds[1],
        rank_change_pct_threshold |-> a.rank_change_pct_threshold,
        use_hybrid_threshold |-> a.use_hybrid_threshold,
        price_change_pct_threshold |-> a.price_change_pct_threshold,
        review_surge_threshold |-> a.review_surge_threshold,
        target_brand_id |-> a.target_brand_id]

-----------------------------------------------------------------------------
(* Tables *)

\* amazon_products: product id -> brand_id
amazon_products == (1 :> 1) @@ (2 :> 1) @@ (3 :> 2)

Products == DOMAIN amazon_products
Categories == {10, 20}
AllPairs == Products \X Categories

Row(t, rank, price, review_count, stock_status) ==
    [collected_at |-> t, rank |-> rank, price |-> price,
     review_count |-> review_count, stock_status |-> stock_status]

-----------------------------------------------------------------------------
(* _analyze_category_trend *)

Reverse(s) == [i \in 1..Len(s) |-> s[Len(s) + 1 - i]]

IsPermutation(f, n) == \A i \in 1..n : \E j \in 1..n : f[j] = i

\* .order_by(desc(collected_at)): any order of the rows that is
\* non-increasing in collected_at (rows with equal timestamps in any order)
order_by_desc(rows) ==
    LET n == Len(rows)
    IN IF \A i, j \in 1..n : i # j => rows[i].collected_at # rows[j].collected_at
       THEN {Reverse(sorted_by_collected_at(rows))}
       ELSE {[i \in 1..n |-> rows[f[i]]] :
               f \in {g \in [1..n -> 1..n] :
                        /\ IsPermutation(g, n)
                        /\ \A i \in 1..(n - 1) :
                             rows[g[i]].collected_at >= rows[g[i + 1]].collected_at}}

query_rankings(c, table, pair, utcnow) ==
    LET cutoff_time == utcnow - (c.trend_analysis_hours
                                  + AMAZON_SCRAPE_INTERVAL_HOURS) * MinutesPerHour
    IN order_by_desc(SelectSeq(table[pair],
                               LAMBDA r : r.collected_at >= cutoff_time))

Analysis(kind, rks, tm, sel, evs) ==
    [kind |-> kind, rankings |-> rks, trend_map |-> tm,
     selection |-> sel, events |-> evs]

OptEvent(e) == IF e = NoEvent THEN <<>> ELSE <<e>>

\* variant: the checks also run on the second and third latest snapshots
aux_events_each_pair(c, pair, rks, utcnow) ==
    LET checks(i) ==
          OptEvent(check_price_change(c, pair, rks[i], rks[i + 1], utcnow))
            \o OptEvent(check_review_surge(c, pair, rks[i], rks[i + 1], utcnow))
            \o OptEvent(check_stock_change(c, pair, rks[i], rks[i + 1], utcnow))
    IN IF Len(rks) >= 3 THEN checks(1) \o checks(2)
       ELSE IF Len(rks) = 2 THEN checks(1)
       ELSE <<>>

aux_events(c, pair, rks, utcnow) ==
    IF Len(rks) >= 2
    THEN OptEvent(check_price_change(c, pair, rks[1], rks[2], utcnow))
           \o OptEvent(check_review_surge(c, pair, rks[1], rks[2], utcnow))
           \o OptEvent(check_stock_change(c, pair, rks[1], rks[2], utcnow))
    ELSE <<>>

analyze_category_trend(c, pair, rks, utcnow) ==
    IF Len(rks) < c.trend_min_data_points
    THEN Analysis("ok", rks, NoneRec, NoneRec, <<>>)
    ELSE
      LET now == rks[1].collected_at
          tm == calculate_trends_by_window(c, rks, now)
      IN IF tm = Raise THEN Analysis("raise", rks, NoneRec, NoneRec, <<>>)
         ELSE
           LET sel == select_trend_for_event(c, tm)
           IN IF sel = NoSelection THEN Analysis("ok", rks, tm, sel, <<>>)
              ELSE Analysis("ok", rks, tm, sel,
                     OptEvent(build_rank_event(c, pair, sel.trend,
                                               sel.event_type, utcnow))
                       \o aux_events(c, pair, rks, utcnow))

-----------------------------------------------------------------------------
(* Inputs: detector configurations and table contents *)

NoTable == [p \in AllPairs |-> <<>>]

Input(c, table, now) == [cfg |-> c, tbl |-> table, clock |-> now]

\* the detector as the scenario tester builds it, with and without hybrid
UiDetector(hybrid) ==
    EventDetector([DefaultArgs EXCEPT
                     !.rank_thresholds = <<EVENT_RANK_THRESHOLDS>>,
                     !.use_hybrid_threshold = hybrid])

\* ... with "use span for detection": a single window of hours_span hours
SpanDetector(hours_span) ==
    EventDetector([DefaultArgs EXCEPT
                     !.trend_analysis_hours = hours_span,
                     !.rank_thresholds = <<EVENT_RANK_THRESHOLDS>>])

\* explicit window list
WindowsDetector(windows) ==
    EventDetector([DefaultArgs EXCEPT
                     !.trend_windows_hours = <<windows>>,
                     !.rank_thresholds = <<EVENT_RANK_THRESHOLDS>>])

\* no rank threshold table given
PlainDetector == EventDetector(DefaultArgs)

TrendRanks == {3, 4, 5, 25}
Gaps == {30, 240}
BasePrice == 2000
TrendDetectors ==
    {UiDetector(TRUE), UiDetector(FALSE), SpanDetector(2), PlainDetector}

\* rows of one pair: ranks r[1..n], gap g[i] minutes before row i + 1
RECURSIVE TimeOf(_, _)
TimeOf(g, i) == IF i = 1 THEN 0 ELSE TimeOf(g, i - 1) + g[i - 1]

Series(r, g) ==
    [i \in 1..Len(r) |-> Row(TimeOf(g, i), r[i], BasePrice, None, NoStatus)]

LastTime(rows) == IF rows = <<>> THEN 0 ELSE rows[Len(rows)].collected_at

SinglePair == <<1, 10>>

OneTable(rows) == [NoTable EXCEPT ![SinglePair] = rows]

TrendInputs(P(_)) ==
    \E c \in TrendDetectors, n \in 0..MaxSnapshots :
      \E r \in [1..n -> TrendRanks], g \in [1..(n - 1) -> Gaps] :
        P(Input(c, OneTable(Series(r, g)), LastTime(Series(r, g))))

\* snapshots collected on schedule, one or two scrape intervals apart
HourlyRanks == {3, 4, 5, 25}
HourlyGaps == {AMAZON_SCRAPE_INTERVAL_HOURS * MinutesPerHour,
               2 * AMAZON_SCRAPE_INTERVAL_HOURS * MinutesPerHour}

HourlyInputs(P(_)) ==
    \E n \in 3..MaxSnapshots :
      \E r \in [1..n -> HourlyRanks], g \in [1..(n - 1) -> HourlyGaps] :
        P(Input(UiDetector(TRUE), OneTable(Series(r, g)),
                LastTime(Series(r, g))))

\* Tier boundaries: one move of d ranks ending at rank e
TierEndRanks == {1, 5, 6, 10, 11, 20, 21, 30, 31, 50, 51, 100, 101, 150}
TierDeltas == {1, 2, 3, 4, 5, 6, 7, 9, 10, 14, 15}
HalfHour == [i \in 1..2 |-> 30]

TierMoves ==
    {m \in (TierEndRanks \X TierDeltas) \X {1, -1} : m[1][1] + m[2] * m[1][2] >= 1}

TierInputs(P(_)) ==
    \E c \in {UiDetector(TRUE), UiDetector(FALSE), PlainDetector},
       m \in TierMoves :
      P(Input(c, OneTable(Series(<<m[1][1] + m[2] * m[1][2],
                                   m[1][1] + m[2] * m[1][2],
                                   m[1][1]>>, HalfHour)), 60))

\* Latest two snapshots with every combination of price, reviews and stock
Prices == {None, 0, 75, 100}
Reviews == {None, 0, 100, 200, 700}
Stocks == {NoStatus, "in_stock", "out_of_stock", "low_stock"}
AuxRanks == {<<25, 25, 25>>, <<25, 5, 3>>}

AuxInputs(P(_)) ==
    \E r \in AuxRanks, pp \in Prices, cp \in Prices,
       pr \in Reviews, cr \in Reviews, ps \in Stocks, cs \in Stocks :
      P(Input(UiDetector(TRUE),
              OneTable(<<Row(0, r[1], BasePrice, None, NoStatus),
                         Row(30, r[2], pp, pr, ps),
                         Row(60, r[3], cp, cr, cs)>>),
              60))

\* The end-to-end scenario: ranks 80, 55, 30, 25 collected four hours apart
ScenarioRows == Series(<<80, 55, 30, 25>>, [i \in 1..3 |-> 240])
ScenarioDetectors ==
    {UiDetector(TRUE), UiDetector(FALSE), WindowsDetector({1, 12}),
     WindowsDetector({1, 12, 24}), SpanDetector(13)}
Lags == {0, 60, 840}

ScenarioInputs(P(_)) ==
    \E c \in ScenarioDetectors, lag \in Lags :
      P(Input(c, OneTable(ScenarioRows), LastTime(ScenarioRows) + lag))

\* Several pairs in one batch, some of them malformed (a row without rank)
FlatPriceDrop ==
    <<Row(0, 25, 100, None, NoStatus), Row(30, 25, 100, None, NoStatus),
      Row(60, 25, 75, None, NoStatus)>>
Rising ==
    <<Row(0, 25, 100, None, NoStatus), Row(30, 5, 100, None, NoStatus),
      Row(60, 3, 75, None, NoStatus)>>
Malformed ==
    <<Row(0, 25, 100, None, NoStatus), Row(30, None, 100, None, NoStatus),
      Row(60, 3, 100, None, NoStatus)>>
BatchSeries == {<<>>, FlatPriceDrop, Rising, Malformed}
BatchPairs == {<<1, 10>>, <<1, 20>>, <<2, 10>>, <<3, 10>>}

BatchInputs(P(_)) ==
    \E f \in [BatchPairs -> BatchSeries] :
      P(Input(UiDetector(TRUE),
              [p \in AllPairs |-> IF p \in BatchPairs THEN f[p] ELSE <<>>], 60))

-----------------------------------------------------------------------------
(* detect_events *)

NoResult == [kind |-> "None"]
NoPair == <<0, 0>>
NoCall == [method |-> "None"]

NoProcs == <<>>

InitDetector(inp, c) ==
    /\ cfg = inp.cfg
    /\ tbl = inp.tbl
    /\ clock = inp.clock
    /\ pc = "idle"
    /\ todo = {}
    /\ cur_pair = NoPair
    /\ rankings = <<>>
    /\ trend_map = NoneRec
    /\ selection = NoneRec
    /\ pair_events = <<>>
    /\ events = <<>>
    /\ result = NoResult
    /\ runs = 0
    /\ call = c
    /\ past_results = <<>>

InitState(inp, c) ==
    /\ InitDetector(inp, c)
    /\ ranking_events = <<>>
    /\ event_insights = <<>>
    /\ procs = NoProcs

InitWith(inp) == InitState(inp, NoCall)

Init ==
    \/ TrendInputs(InitWith)
    \/ HourlyInputs(InitWith)
    \/ TierInputs(InitWith)
    \/ AuxInputs(InitWith)
    \/ ScenarioInputs(InitWith)
    \/ BatchInputs(InitWith)

\* a product loop that skips the pairs an event is already stored for
pairs_to_analyze_not_stored(c, table) ==
    {p \in AllPairs : /\ amazon_products[p[1]] = c.target_brand_id
                      /\ table[p] # <<>>
                      /\ \A i \in 1..Len(ranking_events) :
                            <<ranking_events[i].product_id,
                              ranking_events[i].category_id>> # p}

\* the product loop and, inside it, the loop over the product's categories
pairs_to_analyze(c, table) ==
    {p \in AllPairs : /\ amazon_products[p[1]] = c.target_brand_id
                      /\ table[p] # <<>>}

\* a call of detect_events, the limit-th at most, `delay` minutes after the
\* clock reading of the call before it
DetectEventsAt(limit, delay) ==
    /\ pc \in {"idle", "returned", "raised"}
    /\ runs < limit
    /\ clock' = clock + delay
    /\ pc' = "running"
    /\ runs' = runs + 1
    /\ events' = <<>>
    /\ todo' = pairs_to_analyze(cfg, tbl)
    /\ cur_pair' = NoPair
    /\ rankings' = <<>>
    /\ trend_map' = NoneRec
    /\ selection' = NoneRec
    /\ pair_events' = <<>>
    /\ result' = NoResult
    /\ UNCHANGED <<cfg, tbl, call>>
    /\ UNCHANGED stores

DetectStart ==
    /\ runs < MaxRuns
    /\ DetectEventsAt(MaxRuns, 0)

\* the categories of one product are analysed before the next product
NextPairs ==
    IF \E q \in todo : q[1] = cur_pair[1]
    THEN {q \in todo : q[1] = cur_pair[1]}
    ELSE todo

AnalyzePair(pair) ==
    /\ pc = "running"
    /\ pair \in NextPairs
    /\ \E rks \in query_rankings(cfg, tbl, pair, clock) :
         LET a == analyze_category_trend(cfg, pair, rks, clock)
         IN /\ cur_pair' = pair
            /\ rankings' = a.rankings
            /\ trend_map' = a.trend_map
            /\ selection' = a.selection
            /\ pair_events' = a.events
            /\ IF a.kind = "raise"
               THEN /\ pc' = "raised"
                    /\ result' = Raise
                    /\ UNCHANGED <<todo, events>>
               ELSE /\ events' = events \o a.events
                    /\ todo' = todo \ {pair}
                    /\ UNCHANGED <<pc, result>>
    /\ UNCHANGED <<cfg, tbl, clock, runs, call>>
    /\ UNCHANGED stores

\* a detect_events that stores what it returns
DetectReturn_saving ==
    /\ pc = "running"
    /\ todo = {}
    /\ pc' = "returned"
    /\ result' = [kind |-> "list", events |-> events]
    /\ past_results' = Append(past_results, [clock |-> clock, events |-> events,
                                             saved |-> TRUE])
    /\ ranking_events' = ranking_events \o events
    /\ UNCHANGED <<cfg, tbl, clock, todo, cur_pair, rankings, trend_map,
                   selection, pair_events, events, runs, call>>
    /\ UNCHANGED <<event_insights, procs>>

DetectReturn ==
    /\ pc = "running"
    /\ todo = {}
    /\ pc' = "returned"
    /\ result' = [kind |-> "list", events |-> events]
    /\ past_results' = Append(past_results, [clock |-> clock, events |-> events,
                                             saved |-> FALSE])
    /\ UNCHANGED <<cfg, tbl, clock, todo, cur_pair, rankings, trend_map,
                   selection, pair_events, events, runs, call>>
    /\ UNCHANGED <<ranking_events, event_insights, procs>>

Next ==
    \/ DetectStart
    \/ \E pair \in AllPairs : AnalyzePair(pair)
    \/ DetectReturn

Spec == Init /\ [][Next]_vars

-----------------------------------------------------------------------------
(* Repeated detection runs whose caller stores the returned events *)

\* minutes between two runs: at once, an hour later, fourteen hours later
Delays == {0, 60, 840}

\* a rising pair whose latest snapshot is cheaper, much more reviewed and
\* out of stock: all four kinds of event
AllKinds ==
    <<Row(0, 25, 100, 100, "in_stock"), Row(30, 5, 100, 100, "in_stock"),
      Row(60, 3, 75, 700, "out_of_stock")>>

AllKindsInputs(P(_)) ==
    \E lag \in Lags :
      P(Input(UiDetector(TRUE), OneTable(AllKinds), LastTime(AllKinds) + lag))

InitRuns ==
    \/ ScenarioInputs(InitWith)
    \/ BatchInputs(InitWith)
    \/ AllKindsInputs(InitWith)

DetectRepeat ==
    \E delay \in (IF runs = 0 THEN {0} ELSE Delays) :
      /\ runs < MaxRepeats
      /\ DetectEventsAt(MaxRepeats, delay)

\* the caller adds the returned events to the session and commits
SaveEvents ==
    /\ pc = "returned"
    /\ past_results # <<>>
    /\ ~past_results[Len(past_results)].saved
    /\ ranking_events' = ranking_events \o result.events
    /\ past_results' = [past_results EXCEPT ![Len(past_results)].saved = TRUE]
    /\ UNCHANGED <<cfg, tbl, clock, pc, todo, cur_pair, rankings, trend_map,
                   selection, pair_events, events, result, runs, call>>
    /\ UNCHANGED <<event_insights, procs>>

NextRuns ==
    \/ DetectRepeat
    \/ \E pair \in AllPairs : AnalyzePair(pair)
    \/ DetectReturn
    \/ SaveEvents

SpecRuns == InitRuns /\ [][NextRuns]_vars

-----------------------------------------------------------------------------
(* Direct calls of the detector's methods on a constructed detector *)

Call(method, args) ==
    [method |-> method, args |-> args, returned |-> FALSE,
     score |-> 0, ret |-> NoneRec]

\* _calculate_severity(change_amount, current_rank, consistency)
SeverityCalls(P(_)) ==
    \E change_amount \in 0..MaxChange, current_rank \in 1..MaxRank,
       n \in 1..MaxMoves :
      \E k \in 0..n :
        P(Call("_calculate_severity",
               <<change_amount, current_rank, Frac(k, n)>>))

\* _calculate_trend(rankings): snapshots in any order; the timestamps are
\* all distinct or all equal
CallRanks == {3, 4, 25}

Stamps(n) ==
    {f \in [1..n -> 1..n] : IsPermutation(f, n) \/ \A i \in 1..n : f[i] = 1}

TrendCalls(P(_)) ==
    \E n \in 0..MaxSnapshots :
      \E r \in [1..n -> CallRanks], f \in Stamps(n) :
        P(Call("_calculate_trend",
               <<[i \in 1..n |->
                    Row(f[i] * MinutesPerHour, r[i], BasePrice, None, NoStatus)]>>))

\* the auxiliary detectors on (current, previous); a stored price is None or
\* positive (the scraper stores None for a zero price), a review count may be 0
CallPrices == {None, 70, 71, 75, 80, 81, 100, 120, 125, 130}
CallReviews == {None, 0, 1, 100, 101, 200, 201, 600, 601, 700}
CallStocks == {NoStatus, "in_stock", "out_of_stock", "low_stock", "unknown"}

PriceCalls(P(_)) ==
    \E cp \in CallPrices, pp \in CallPrices :
      P(Call("_check_price_change",
             <<SinglePair, Row(60, 5, cp, None, NoStatus),
               Row(0, 5, pp, None, NoStatus)>>))

ReviewCalls(P(_)) ==
    \E cr \in CallReviews, pr \in CallReviews :
      P(Call("_check_review_surge",
             <<SinglePair, Row(60, 5, None, cr, NoStatus),
               Row(0, 5, None, pr, NoStatus)>>))

StockCalls(P(_)) ==
    \E cs \in CallStocks, ps \in CallStocks :
      P(Call("_check_stock_change",
             <<SinglePair, Row(60, 5, None, None, cs),
               Row(0, 5, None, None, ps)>>))

\* EventDetector(...): the defaults, an explicit empty tier table, and
\* configurations with an empty window list, a non-positive window, a
\* non-positive minimum of data points or a tier entry without a range
CtorArgs ==
    {DefaultArgs,
     [DefaultArgs EXCEPT !.rank_thresholds = << <<>> >>],
     [DefaultArgs EXCEPT !.rank_thresholds =
        << <<[range |-> <<1, 10>>, threshold |-> 5]>> >>],
     [DefaultArgs EXCEPT !.rank_thresholds = << <<[threshold |-> 5]>> >>],
     [DefaultArgs EXCEPT !.trend_windows_hours = << {1, 6} >>],
     [DefaultArgs EXCEPT !.trend_windows_hours = << {} >>],
     [DefaultArgs EXCEPT !.trend_windows_hours = << {0, 6} >>],
     [DefaultArgs EXCEPT !.trend_windows_hours = << {-1} >>],
     [DefaultArgs EXCEPT !.trend_min_data_points = 0],
     [DefaultArgs EXCEPT !.trend_min_data_points = -1]}

CtorCalls(P(_)) ==
    \E a \in CtorArgs : P(Call("__init__", <<a>>))

InitCall(c) == InitState(Input(UiDetector(TRUE), NoTable, 60), c)

InitFn ==
    \/ SeverityCalls(InitCall)
    \/ CtorCalls(InitCall)
    \/ TrendCalls(InitCall)
    \/ PriceCalls(InitCall)
    \/ ReviewCalls(InitCall)
    \/ StockCalls(InitCall)

Pending(method) == call.method = method /\ ~call.returned

Return(value) ==
    /\ call' = [call EXCEPT !.returned = TRUE, !.ret = value]
    /\ UNCHANGED <<cfg, tbl, clock, pc, todo, cur_pair, rankings, trend_map,
                   selection, pair_events, events, result, runs>>
    /\ UNCHANGED stores

Call_calculate_severity ==
    /\ Pending("_calculate_severity")
    /\ call' = [call EXCEPT
                  !.returned = TRUE,
                  !.score = severity_score(call.args[1], call.args[2],
                                           call.args[3]),
                  !.ret = calculate_severity(call.args[1], call.args[2],
                                             call.args[3])]
    /\ UNCHANGED <<cfg, tbl, clock, pc, todo, cur_pair, rankings, trend_map,
                   selection, pair_events, events, result, runs>>
    /\ UNCHANGED stores

Call_calculate_trend ==
    /\ Pending("_calculate_trend")
    /\ Return(calculate_trend(call.args[1]))

Call_check_price_change ==
    /\ Pending("_check_price_change")
    /\ Return(check_price_change(cfg, call.args[1], call.args[2],
                                 call.args[3], clock))

Call_check_review_surge ==
    /\ Pending("_check_review_surge")
    /\ Return(check_review_surge(cfg, call.args[1], call.args[2],
                                 call.args[3], clock))

Call_check_stock_change ==
    /\ Pending("_check_stock_change")
    /\ Return(check_stock_change(cfg, call.args[1], call.args[2],
                                 call.args[3], clock))

\* the constructor stores its arguments; no statement of it raises for them
Call___init__ ==
    /\ Pending("__init__")
    /\ Return(EventDetector(call.args[1]))

NextFn ==
    \/ Call_calculate_severity
    \/ Call___init__
    \/ Call_calculate_trend
    \/ Call_check_price_change
    \/ Call_check_review_surge
    \/ Call_check_stock_change

SpecFn == InitFn /\ [][NextFn]_vars

-----------------------------------------------------------------------------
(* Properties *)

Range(s) == {s[i] : i \in 1..Len(s)}

\* a pair has been analysed without raising: the locals hold its analysis
Analysed == cur_pair # NoPair /\ pc # "raised"

\* ... and the trend map was computed
Mapped == Analysed /\ trend_map # NoneRec

RankEventsOf(evs) == {i \in 1..Len(evs) : evs[i].event_type \in RankTypes}
EventsOfType(evs, type) == {i \in 1..Len(evs) : evs[i].event_type = type}

\* the rank event e carries the fields of trend t
DerivedFrom(e, t) ==
    /\ e.prev_rank = t.start_rank
    /\ e.curr_rank = t.end_rank
    /\ e.rank_change = t.end_rank - t.start_rank

FlatRanks(rks) ==
    \A i \in 1..Len(rks) : rks[i].rank # None /\ rks[i].rank = rks[1].rank

\* the latest snapshot is 25% cheaper than the one before it
PriceDrop25(rks) ==
    /\ Len(rks) >= 2
    /\ rks[1].price > 0 /\ rks[2].price > 0
    /\ rks[1].price * 100 = rks[2].price * 75

\* C1: a pair with at least trend_min_data_points snapshots of equal rank
\* whose latest two snapshots show a 25% price drop yields exactly one
\* PRICE_CHANGE event and no rank-type event.
C1_FlatRankPriceDrop ==
    (/\ Analysed
     /\ Len(rankings) >= cfg.trend_min_data_points
     /\ FlatRanks(rankings)
     /\ PriceDrop25(rankings)
     /\ cfg.price_change_pct_threshold <= 25)
    => /\ Cardinality(EventsOfType(pair_events, "PRICE_CHANGE")) = 1
       /\ RankEventsOf(pair_events) = {}

\* the events one pair yields when its evaluation does not raise
ExpectedEvents(pair) ==
    UNION {IF analyze_category_trend(cfg, pair, rks, clock).kind = "ok"
           THEN Range(analyze_category_trend(cfg, pair, rks, clock).events)
           ELSE {} : rks \in query_rankings(cfg, tbl, pair, clock)}

\* what the caller of detect_events received
Returned == IF result.kind = "list" THEN Range(result.events) ELSE {}

\* C2: when detect_events has finished, its caller has received the events
\* of every pair whose evaluation did not fail, whichever pairs failed and
\* in whatever order the pairs were visited.
C2_FailureIsolated ==
    (pc \in {"returned", "raised"})
    => \A pair \in pairs_to_analyze(cfg, tbl) :
         ExpectedEvents(pair) \subseteq Returned

SteadyQualifies ==
    /\ passing(cfg, trend_map, cfg.steady_window_hours)
    /\ FracGE(trend_map.trends[cfg.steady_window_hours].consistency,
              cfg.steady_consistency_min)

SurgePasses == passing(cfg, trend_map, cfg.surge_window_hours)

\* C3: whenever the steady window's trend passes the thresholds with
\* consistency >= steady_consistency_min, that trend is selected and typed
\* STEADY_RISE (total_change > 0) or STEADY_DECLINE (total_change < 0), also
\* when the surge window's trend passes; never RANK_SURGE or RANK_DROP.
C3_SteadyPrecedence ==
    (Mapped /\ SteadyQualifies)
    => LET t == trend_map.trends[cfg.steady_window_hours]
       IN /\ selection # NoSelection
          /\ selection.trend = t
          /\ t.total_change > 0 => selection.event_type = "STEADY_RISE"
          /\ t.total_change < 0 => selection.event_type = "STEADY_DECLINE"
          /\ t.total_change # 0
          /\ selection.event_type \notin {"RANK_SURGE", "RANK_DROP"}
          /\ \A i \in RankEventsOf(pair_events) :
               pair_events[i].event_type = selection.event_type

\* steady and surge windows both qualify, with different trends
C3_Witness ==
    /\ Mapped /\ SteadyQualifies /\ SurgePasses
    /\ trend_map.trends[cfg.surge_window_hours]
         # trend_map.trends[cfg.steady_window_hours]
    /\ selection.event_type \in {"STEADY_RISE", "STEADY_DECLINE"}
    /\ RankEventsOf(pair_events) # {}

\* C4: when the steady window does not qualify and the surge window's trend
\* passes, the surge window's trend is selected and typed RANK_SURGE
\* (total_change > 0) or RANK_DROP (total_change < 0), whatever longer
\* windows pass and whatever the surge trend's consistency.
C4_SurgeRule ==
    (Mapped /\ ~SteadyQualifies /\ SurgePasses)
    => LET t == trend_map.trends[cfg.surge_window_hours]
       IN /\ selection # NoSelection
          /\ selection.trend = t
          /\ t.total_change > 0 => selection.event_type = "RANK_SURGE"
          /\ t.total_change < 0 => selection.event_type = "RANK_DROP"
          /\ t.total_change # 0
          /\ \A i \in RankEventsOf(pair_events) :
               /\ pair_events[i].event_type = selection.event_type
               /\ DerivedFrom(pair_events[i], t)

\* the surge trend is selected although a longer window passes too and the
\* surge trend's consistency reaches the steady floor
C4_Witness ==
    /\ Mapped /\ ~SteadyQualifies /\ SurgePasses
    /\ \E w \in trend_map.windows :
         /\ w > cfg.surge_window_hours
         /\ passing(cfg, trend_map, w)
         /\ trend_map.trends[w] # trend_map.trends[cfg.surge_window_hours]
    /\ FracGE(trend_map.trends[cfg.surge_window_hours].consistency,
              cfg.steady_consistency_min)
    /\ selection.event_type \in {"RANK_SURGE", "RANK_DROP"}
    /\ RankEventsOf(pair_events) # {}

PassingWindows == {w \in trend_map.windows : passing(cfg, trend_map, w)}

\* C5: when neither the steady nor the surge rule selects, the passing trend
\* of the largest window is selected, typed STEADY_RISE/STEADY_DECLINE if its
\* consistency >= steady_consistency_min and RANK_SURGE/RANK_DROP otherwise,
\* by the sign of total_change; if no trend passes nothing is selected and
\* no rank-type event is emitted.
C5_Fallback ==
    (Mapped /\ ~SteadyQualifies /\ ~SurgePasses)
    => IF PassingWindows = {}
       THEN selection = NoSelection /\ RankEventsOf(pair_events) = {}
       ELSE LET w == SetMax(PassingWindows)
                t == trend_map.trends[w]
                steady == FracGE(t.consistency, cfg.steady_consistency_min)
            IN /\ selection # NoSelection
               /\ selection.trend = t
               /\ \A v \in PassingWindows : v <= w
               /\ (steady /\ t.total_change > 0)
                    => selection.event_type = "STEADY_RISE"
               /\ (steady /\ t.total_change < 0)
                    => selection.event_type = "STEADY_DECLINE"
               /\ (~steady /\ t.total_change > 0)
                    => selection.event_type = "RANK_SURGE"
               /\ (~steady /\ t.total_change < 0)
                    => selection.event_type = "RANK_DROP"
               /\ t.total_change # 0
               /\ \A i \in RankEventsOf(pair_events) :
                    /\ pair_events[i].event_type = selection.event_type
                    /\ DerivedFrom(pair_events[i], t)

\* the fallback chooses between two passing windows with different trends
C5_Witness ==
    /\ Mapped /\ ~SteadyQualifies /\ ~SurgePasses
    /\ \E v, w \in PassingWindows :
         v < w /\ trend_map.trends[v] # trend_map.trends[w]
    /\ selection # NoSelection
    /\ selection.trend = trend_map.trends[SetMax(PassingWindows)]
    /\ RankEventsOf(pair_events) # {}

\* the threshold policy, as stated
ThresholdPolicy(c, t) ==
    /\ t.consistency.num * c.trend_consistency_threshold.den
         >= c.trend_consistency_threshold.num * t.consistency.den
    /\ \/ Abs(t.total_change) >= get_rank_threshold(c, t.end_rank)
       \/ /\ c.use_hybrid_threshold
          /\ t.start_rank > 0
          /\ Abs(t.total_change) * 100 >= c.rank_change_pct_threshold * t.start_rank

\* C6: every rank-type event returned for a pair is derived from a trend of
\* the pair's trend map that satisfies the threshold policy: consistency >=
\* trend_consistency_threshold and (|total_change| >= tier threshold of
\* end_rank, or hybrid on, start_rank > 0 and
\* |total_change| * 100 >= rank_change_pct_threshold * start_rank).
C6_RankEventMeetsPolicy ==
    Analysed =>
      \A i \in RankEventsOf(pair_events) :
        /\ Mapped
        /\ selection # NoSelection
        /\ \E w \in trend_map.windows : selection.trend = trend_map.trends[w]
        /\ DerivedFrom(pair_events[i], selection.trend)
        /\ ThresholdPolicy(cfg, selection.trend)

\* a rank event from a trend that is not perfectly consistent and passes
\* through the percentage gate only
C6_Witness ==
    /\ Analysed
    /\ RankEventsOf(pair_events) # {}
    /\ selection.trend.consistency.num < selection.trend.consistency.den
    /\ Abs(selection.trend.total_change)
         < get_rank_threshold(cfg, selection.trend.end_rank)

\* consistent enough, below the tier threshold, at or above the percentage
PctOnly(c, t) ==
    /\ FracGE(t.consistency, c.trend_consistency_threshold)
    /\ Abs(t.total_change) < get_rank_threshold(c, t.end_rank)
    /\ t.start_rank > 0
    /\ Abs(t.total_change) * 100 >= c.rank_change_pct_threshold * t.start_rank

\* C7: a trend that meets the consistency threshold, fails the absolute tier
\* gate and reaches the percentage threshold produces a rank event when
\* use_hybrid_threshold is True and none when it is False.
C7_HybridOr ==
    Mapped =>
      \A w \in trend_map.windows :
        PctOnly(cfg, trend_map.trends[w]) =>
          IF cfg.use_hybrid_threshold
          THEN /\ RankEventsOf(pair_events) # {}
               /\ (\A v \in trend_map.windows :
                     trend_map.trends[v] = trend_map.trends[w])
                  => \A i \in RankEventsOf(pair_events) :
                       DerivedFrom(pair_events[i], trend_map.trends[w])
          ELSE /\ selection # NoSelection
                    => selection.trend # trend_map.trends[w]
               /\ (\A v \in trend_map.windows :
                     trend_map.trends[v] = trend_map.trends[w])
                  => RankEventsOf(pair_events) = {}

\* hybrid on: the only trend of the pair passes by percentage alone
C7_Witness ==
    /\ Mapped
    /\ cfg.use_hybrid_threshold
    /\ \E w \in trend_map.windows :
         /\ PctOnly(cfg, trend_map.trends[w])
         /\ \A v \in trend_map.windows : trend_map.trends[v] = trend_map.trends[w]
         /\ \E i \in RankEventsOf(pair_events) :
              DerivedFrom(pair_events[i], trend_map.trends[w])

\* hybrid off: the same kind of trend, and no event
C7_WitnessOff ==
    /\ Mapped
    /\ ~cfg.use_hybrid_threshold
    /\ \E w \in trend_map.windows : PctOnly(cfg, trend_map.trends[w])
    /\ pair_events = <<>>

\* the tier table, as stated
TierThreshold(rank) ==
    IF 1 <= rank /\ rank <= 5 THEN 2
    ELSE IF 6 <= rank /\ rank <= 10 THEN 3
    ELSE IF 11 <= rank /\ rank <= 20 THEN 5
    ELSE IF 21 <= rank /\ rank <= 30 THEN 7
    ELSE IF 31 <= rank /\ rank <= 50 THEN 10
    ELSE IF 51 <= rank /\ rank <= 100 THEN 15
    ELSE 15

\* C8: with the configured tier table, the absolute gate compares
\* |total_change| with 2, 3, 5, 7, 10, 15 for end_rank in 1-5, 6-10, 11-20,
\* 21-30, 31-50, 51-100 and with 15 for any other rank: with hybrid off, a
\* sufficiently consistent trend passes exactly when |total_change| reaches
\* that value, and a rank event is emitted exactly when some trend passes;
\* so a trend ending at rank 5 passes with |total_change| = 2, not with 1.
C8_TierThresholds ==
    (Mapped /\ cfg.rank_thresholds = EVENT_RANK_THRESHOLDS
            /\ ~cfg.use_hybrid_threshold)
    => /\ \A w \in trend_map.windows :
            LET t == trend_map.trends[w]
            IN /\ get_rank_threshold(cfg, t.end_rank) = TierThreshold(t.end_rank)
               /\ FracGE(t.consistency, cfg.trend_consistency_threshold)
                  => (passing(cfg, trend_map, w)
                        <=> Abs(t.total_change) >= TierThreshold(t.end_rank))
               /\ (t.end_rank = 5 /\ Abs(t.total_change) = 1)
                  => ~passing(cfg, trend_map, w)
       /\ (RankEventsOf(pair_events) # {})
            <=> \E w \in trend_map.windows :
                  LET t == trend_map.trends[w]
                  IN /\ FracGE(t.consistency, cfg.trend_consistency_threshold)
                     /\ Abs(t.total_change) >= TierThreshold(t.end_rank)

\* hybrid off: a rank event for a trend that ends at rank 5 after a change of 2
C8_Witness ==
    /\ Mapped
    /\ cfg.rank_thresholds = EVENT_RANK_THRESHOLDS
    /\ ~cfg.use_hybrid_threshold
    /\ selection # NoSelection
    /\ selection.trend.end_rank = 5
    /\ Abs(selection.trend.total_change) = 2
    /\ \E i \in RankEventsOf(pair_events) :
         DerivedFrom(pair_events[i], selection.trend)

\* the four scenario snapshots were read, steady window 24h, surge window 1h
ScenarioAnalysed ==
    /\ Analysed
    /\ rankings = Reverse(ScenarioRows)
    /\ cfg.steady_window_hours = 24
    /\ cfg.surge_window_hours = 1

\* C9 (as stated): for snapshots (t0,80), (t0+4h,55), (t0+8h,30),
\* (t0+12h,25) with steady window 24h and surge window 1h, neither the 24h
\* nor the 1h window has a trend, the fallback selects, and the single rank
\* event has type RANK_SURGE.
C9_ScenarioRankSurge ==
    ScenarioAnalysed
    => /\ Mapped
       /\ 24 \notin trend_map.windows
       /\ 1 \notin trend_map.windows
       /\ selection # NoSelection
       /\ selection.rule = "fallback"
       /\ Cardinality(RankEventsOf(pair_events)) = 1
       /\ \A i \in RankEventsOf(pair_events) :
            pair_events[i].event_type = "RANK_SURGE"

\* C9 (amended): for the same snapshots the 1h window has no trend and the
\* single rank event has type STEADY_RISE, from a trend with total_change 55
\* and consistency 1: a 24h window among the detector's windows holds all
\* four snapshots and is selected by the steady rule; without it the
\* fallback selects the largest passing window, whose consistency reaches
\* the steady floor.
C9_ScenarioSteadyRise ==
    ScenarioAnalysed
    => /\ Mapped
       /\ 1 \notin trend_map.windows
       /\ selection # NoSelection
       /\ selection.trend.total_change = 55
       /\ selection.trend.consistency.num = selection.trend.consistency.den
       /\ Cardinality(RankEventsOf(pair_events)) = 1
       /\ \A i \in RankEventsOf(pair_events) :
            /\ pair_events[i].event_type = "STEADY_RISE"
            /\ pair_events[i].prev_rank = 80
            /\ pair_events[i].curr_rank = 25
       /\ IF 24 \in cfg.trend_windows_hours
          THEN /\ 24 \in trend_map.windows
               /\ trend_map.trends[24].data_points = 4
               /\ selection.rule = "steady"
          ELSE /\ selection.rule = "fallback"
               /\ selection.window = SetMax(PassingWindows)

\* the scenario analysed by a detector without a 24h window: fallback to 12h
C9_Witness ==
    /\ ScenarioAnalysed
    /\ selection # NoSelection
    /\ selection.rule = "fallback"
    /\ selection.window = 12
    /\ \E i \in RankEventsOf(pair_events) :
         pair_events[i].event_type = "STEADY_RISE"

\* ... and by a detector with the default windows: steady rule on 24h
C9_WitnessSteady ==
    /\ ScenarioAnalysed
    /\ selection # NoSelection
    /\ selection.rule = "steady"
    /\ selection.window = 24

\* a rank event of the pair from a trend of |total_change| 55 ending at
\* rank 25 with consistency 1.0
ScenarioEvent(e) ==
    /\ e.event_type \in RankTypes
    /\ selection # NoSelection
    /\ DerivedFrom(e, selection.trend)
    /\ Abs(selection.trend.total_change) = 55
    /\ selection.trend.end_rank = 25
    /\ selection.trend.consistency.num = selection.trend.consistency.den

\* C10 (as stated): such an event scores 40 + 20 + 20 = 80, labelled critical.
C10_ScenarioCritical ==
    Analysed =>
      \A e \in Range(pair_events) :
        ScenarioEvent(e) =>
          /\ e.severity = "critical"
          /\ severity_score(55, 25, selection.trend.consistency) = 80

\* C10 (amended): such an event scores 40 (magnitude) + 10 (rank <= 30)
\* + 20 (consistency) = 70 and is labelled high.
C10_ScenarioHigh ==
    Analysed =>
      \A e \in Range(pair_events) :
        ScenarioEvent(e) =>
          /\ e.severity = "high"
          /\ severity_score(Abs(selection.trend.total_change),
                            selection.trend.end_rank,
                            selection.trend.consistency) = 70
          /\ magnitude_points(55) = 40
          /\ rank_points(25) = 10
          /\ consistency_points(selection.trend.consistency) = 20

C10_Witness ==
    /\ Analysed
    /\ \E e \in Range(pair_events) : ScenarioEvent(e) /\ e.severity = "high"

-----------------------------------------------------------------------------
(* Severity: C11, C12 *)

SeverityReturned == call.method = "_calculate_severity" /\ call.returned

MagnitudeBand(a) ==
    IF a < 5 THEN 0
    ELSE IF a \in 5..9 THEN 10
    ELSE IF a \in 10..14 THEN 20
    ELSE IF a \in 15..19 THEN 30
    ELSE 40

RankBand(r) ==
    IF r <= 5 THEN 40
    ELSE IF r <= 10 THEN 30
    ELSE IF r <= 20 THEN 20
    ELSE IF r <= 30 THEN 10
    ELSE 0

LabelOf(score) ==
    CASE score >= 80 -> "critical"
      [] score \in 60..79 -> "high"
      [] score \in 40..59 -> "medium"
      [] OTHER -> "low"

\* C11: for every (change_amount, current_rank, consistency) the severity
\* score is the magnitude points (0 below 5, 10 for 5-9, 20 for 10-14, 30 for
\* 15-19, 40 from 20) plus the rank points (40 up to rank 5, 30 up to 10, 20
\* up to 20, 10 up to 30, else 0) plus the consistency points, and the label
\* is critical from 80, high from 60, medium from 40, else low; so
\* (22, 3, 1.0) is critical and (6, 35, 0.5) is low.
C11_SeverityScore ==
    SeverityReturned =>
      LET a == call.args[1]
          r == call.args[2]
          c == call.args[3]
      IN /\ call.score = MagnitudeBand(a) + RankBand(r) + consistency_points(c)
         /\ call.ret = LabelOf(call.score)
         /\ (a = 22 /\ r = 3 /\ c.num = c.den) => call.ret = "critical"
         /\ (a = 6 /\ r = 35 /\ 2 * c.num = c.den) => call.ret = "low"

C11_Witness ==
    /\ SeverityReturned
    /\ call.args = <<6, 35, Frac(1, 2)>>
    /\ call.score = 20
    /\ call.ret = "low"

\* the part of the score left after the magnitude and rank points
ConsistencyPart ==
    call.score - MagnitudeBand(call.args[1]) - RankBand(call.args[2])

\* round(x) of x = 20 * num / den: the nearest integer, ties to the even one
Rounded20(c) ==
    CHOOSE p \in 0..20 :
      \/ 2 * Abs(20 * c.num - p * c.den) < c.den
      \/ 2 * Abs(20 * c.num - p * c.den) = c.den /\ p % 2 = 0

\* floor(x) of x = 20 * num / den
Floor20(c) ==
    CHOOSE p \in 0..20 : p * c.den <= 20 * c.num /\ 20 * c.num < (p + 1) * c.den

\* C12 as stated: the consistency component of the severity score is
\* round(consistency * 20) for every consistency k/n; 5/6 contributes 17.
C12_RoundedConsistency ==
    SeverityReturned =>
      /\ ConsistencyPart = Rounded20(call.args[3])
      /\ call.args[3] = Frac(5, 6) => ConsistencyPart = 17

\* C12 amended: the consistency component of the severity score is
\* int(consistency * 20), the integer part of consistency * 20, for every
\* consistency k/n; 5/6 contributes 16.
C12_TruncatedConsistency ==
    SeverityReturned =>
      /\ ConsistencyPart = Floor20(call.args[3])
      /\ call.args[3] = Frac(5, 6) => ConsistencyPart = 16

C12_Witness ==
    /\ SeverityReturned
    /\ call.args[3] = Frac(5, 6)
    /\ ConsistencyPart = 16
    /\ Rounded20(call.args[3]) = 17

-----------------------------------------------------------------------------
(* Trend calculator: C13 to C16 *)

TrendReturned == call.method = "_calculate_trend" /\ call.returned

DistinctTimes(rows) ==
    \A i, j \in 1..Len(rows) :
      i # j => rows[i].collected_at # rows[j].collected_at

\* the rank numbers grow (fall) as time advances
IncreasingInTime(rows) ==
    \A i, j \in 1..Len(rows) :
      rows[i].collected_at < rows[j].collected_at => rows[i].rank < rows[j].rank

DecreasingInTime(rows) ==
    \A i, j \in 1..Len(rows) :
      rows[i].collected_at < rows[j].collected_at => rows[i].rank > rows[j].rank

\* C13: for a strictly increasing or strictly decreasing rank sequence of at
\* least 2 snapshots _calculate_trend returns a trend whose consistency is
\* exactly 1.0, and every trend it returns has a consistency in [0, 1].
C13_MonotoneConsistency ==
    TrendReturned =>
      LET rows == call.args[1]
      IN /\ ( /\ Len(rows) >= 2
              /\ DistinctTimes(rows)
              /\ IncreasingInTime(rows) \/ DecreasingInTime(rows) )
            => /\ call.ret.kind = "trend"
               /\ call.ret.consistency.den > 0
               /\ call.ret.consistency.num = call.ret.consistency.den
         /\ call.ret.kind = "trend"
            => /\ call.ret.consistency.den > 0
               /\ call.ret.consistency.num \in 0..call.ret.consistency.den

\* two snapshots, newest first as the query returns them, rank falling 25 -> 3
C13_Witness ==
    /\ TrendReturned
    /\ Len(call.args[1]) = 2
    /\ call.args[1][1].collected_at > call.args[1][2].collected_at
    /\ call.args[1][1].rank = 3 /\ call.args[1][2].rank = 25
    /\ call.ret.kind = "trend"
    /\ call.ret.consistency = Frac(1, 1)

\* the snapshots of the analysed pair that fall into window w
WindowRows(w) ==
    SelectSeq(rankings,
              LAMBDA r : r.collected_at
                           >= rankings[1].collected_at - w * MinutesPerHour)

\* C14: when all ranks of a window's snapshots are equal, _calculate_trend
\* returns None for it: the window has no trend, and no rank-type event is
\* produced for that window.
C14_FlatWindowNoTrend ==
    Mapped =>
      \A w \in cfg.trend_windows_hours :
        FlatRanks(WindowRows(w))
          => /\ w \notin trend_map.windows
             /\ RankEventsOf(pair_events) # {} => selection.window # w

\* the last hour holds three snapshots of equal rank and has no trend, while
\* a larger window, which has the earlier move, gives a rank event
C14_Witness ==
    /\ Mapped
    /\ \E w \in cfg.trend_windows_hours :
         /\ Len(WindowRows(w)) >= cfg.trend_min_data_points
         /\ FlatRanks(WindowRows(w))
         /\ w \notin trend_map.windows
    /\ RankEventsOf(pair_events) # {}

\* C15: a trend whose total_change is 0 (start_rank = end_rank, with moves in
\* between) is never turned into a rank event; with positive tier and
\* percentage thresholds no rank-type event has prev_rank = curr_rank.
C15_NoZeroChangeEvent ==
    /\ \A i \in RankEventsOf(pair_events) :
         pair_events[i].prev_rank # pair_events[i].curr_rank
    /\ \A i \in RankEventsOf(events) : events[i].prev_rank # events[i].curr_rank
    /\ Mapped /\ selection # NoSelection /\ RankEventsOf(pair_events) # {}
         => trend_map.trends[selection.window].total_change # 0

\* a window's trend comes back to its start rank with a consistency that
\* meets the detector's threshold, and no rank event is emitted from it
C15_Witness ==
    /\ Mapped
    /\ \E w \in trend_map.windows :
         /\ trend_map.trends[w].total_change = 0
         /\ FracGE(trend_map.trends[w].consistency,
                   cfg.trend_consistency_threshold)
         /\ w = SetMax(trend_map.windows)
    /\ RankEventsOf(pair_events) = {}

\* What the set of (collected_at, rank) observations determines, whatever
\* the order of the list that carries them (timestamps distinct).
OldestOf(rows) ==
    CHOOSE i \in 1..Len(rows) :
      \A j \in 1..Len(rows) : rows[i].collected_at <= rows[j].collected_at

NewestOf(rows) ==
    CHOOSE i \in 1..Len(rows) :
      \A j \in 1..Len(rows) : rows[i].collected_at >= rows[j].collected_at

\* j is the observation right before i in time
RightBefore(rows, j, i) ==
    /\ rows[j].collected_at < rows[i].collected_at
    /\ \A k \in 1..Len(rows) :
         ~(rows[j].collected_at < rows[k].collected_at
             /\ rows[k].collected_at < rows[i].collected_at)

\* pairs <<j, i>> of time-consecutive observations whose ranks differ
MovesInTime(rows) ==
    {m \in (1..Len(rows)) \X (1..Len(rows)) :
       RightBefore(rows, m[1], m[2]) /\ rows[m[1]].rank # rows[m[2]].rank}

\* C16: for snapshots with distinct collected_at the trend does not depend on
\* the order of the input: in every permutation start_rank is the rank of the
\* oldest snapshot, end_rank that of the newest, total_change their
\* difference, data_points the number of snapshots, and consistency the share
\* of time-consecutive moves in the direction of total_change.
C16_OrderIndependent ==
    (TrendReturned /\ Len(call.args[1]) >= 2 /\ DistinctTimes(call.args[1])) =>
      LET rows == call.args[1]
          first == rows[OldestOf(rows)].rank
          last == rows[NewestOf(rows)].rank
          up == {m \in MovesInTime(rows) : rows[m[1]].rank > rows[m[2]].rank}
          down == MovesInTime(rows) \ up
      IN IF MovesInTime(rows) = {} THEN call.ret = NoTrend
         ELSE /\ call.ret.kind = "trend"
              /\ call.ret.start_rank = first
              /\ call.ret.end_rank = last
              /\ call.ret.total_change = first - last
              /\ call.ret.data_points = Len(rows)
              /\ call.ret.consistency.den = Cardinality(MovesInTime(rows))
              /\ call.ret.consistency.num =
                   IF first - last > 0 THEN Cardinality(up)
                   ELSE Cardinality(down)

\* three or more snapshots given neither oldest-first nor newest-first, with
\* moves in both directions
C16_Witness ==
    /\ TrendReturned
    /\ Len(call.args[1]) >= 3
    /\ DistinctTimes(call.args[1])
    /\ call.args[1][1].collected_at > call.args[1][2].collected_at
    /\ call.args[1][2].collected_at < call.args[1][3].collected_at
    /\ call.ret.kind = "trend"
    /\ call.ret.total_change # 0
    /\ call.ret.consistency.num \in 1..(call.ret.consistency.den - 1)

-----------------------------------------------------------------------------
(* Auxiliary detectors: C17 to C19 *)

PriceReturned == call.method = "_check_price_change" /\ call.returned

\* C17: the price detector, given the latest two snapshots: when both carry a
\* price it returns a PRICE_CHANGE event iff |curr - prev| / prev * 100 is at
\* least price_change_pct_threshold, with severity medium when that
\* percentage is at least 30 and low otherwise; when either price is missing
\* it returns no event.
C17_PriceChange ==
    PriceReturned =>
      LET curr == call.args[2].price
          prev == call.args[3].price
      IN IF curr # None /\ prev # None
         THEN /\ call.ret # NoEvent
                   <=> Abs(curr - prev) * 100
                         >= cfg.price_change_pct_threshold * prev
              /\ call.ret # NoEvent
                   => /\ call.ret.event_type = "PRICE_CHANGE"
                      /\ call.ret.severity =
                           IF Abs(curr - prev) * 100 >= 30 * prev
                           THEN "medium" ELSE "low"
         ELSE call.ret = NoEvent

\* a drop of exactly 20%, at the threshold: a low PRICE_CHANGE
C17_Witness ==
    /\ PriceReturned
    /\ call.args[2].price = 80 /\ call.args[3].price = 100
    /\ call.ret # NoEvent
    /\ call.ret.event_type = "PRICE_CHANGE"
    /\ call.ret.severity = "low"

ReviewReturned == call.method = "_check_review_surge" /\ call.returned

\* REVIEW_SURGE is returned iff the count grew by the threshold, and its
\* severity is high from a growth of 500, medium below
SurgeIffGrowth(curr, prev) ==
    /\ call.ret # NoEvent <=> curr - prev >= cfg.review_surge_threshold
    /\ call.ret # NoEvent
         => /\ call.ret.event_type = "REVIEW_SURGE"
            /\ call.ret.severity = IF curr - prev >= 500 THEN "high" ELSE "medium"

\* C18 as stated: whenever both snapshots have a review count, REVIEW_SURGE is
\* emitted iff curr - prev >= review_surge_threshold (a decrease never emits),
\* with severity high if the delta is at least 500, else medium.
C18_ReviewSurge ==
    (ReviewReturned /\ call.args[2].review_count # None
                    /\ call.args[3].review_count # None)
      => SurgeIffGrowth(call.args[2].review_count, call.args[3].review_count)

\* C18 amended: whenever both snapshots have a review count and the previous
\* count is not 0, REVIEW_SURGE is emitted iff curr - prev >=
\* review_surge_threshold (a decrease never emits), with severity high if the
\* delta is at least 500, else medium; when the previous count is 0 or either
\* count is missing, nothing is emitted.
C18_ReviewSurgeFromNonZero ==
    ReviewReturned =>
      LET curr == call.args[2].review_count
          prev == call.args[3].review_count
      IN IF curr # None /\ prev # None /\ prev # 0
         THEN SurgeIffGrowth(curr, prev)
         ELSE call.ret = NoEvent

\* growth by exactly 500 from a non-zero count: a high REVIEW_SURGE
C18_Witness ==
    /\ ReviewReturned
    /\ call.args[2].review_count = 600 /\ call.args[3].review_count = 100
    /\ call.ret # NoEvent
    /\ call.ret.event_type = "REVIEW_SURGE"
    /\ call.ret.severity = "high"

StockReturned == call.method = "_check_stock_change" /\ call.returned

\* C19: the stock detector returns a STOCK_CHANGE event only when the latest
\* two snapshots have different stock statuses one of which is out_of_stock;
\* its severity is high when the current status is out_of_stock and medium
\* when the previous one was; transitions among in_stock, low_stock and
\* unknown return nothing.
C19_StockChange ==
    StockReturned =>
      LET curr == call.args[2].stock_status
          prev == call.args[3].stock_status
      IN /\ call.ret # NoEvent
              => /\ curr # prev
                 /\ curr = "out_of_stock" \/ prev = "out_of_stock"
                 /\ call.ret.event_type = "STOCK_CHANGE"
                 /\ curr = "out_of_stock" => call.ret.severity = "high"
                 /\ prev = "out_of_stock" => call.ret.severity = "medium"
         /\ {curr, prev} \subseteq {"in_stock", "low_stock", "unknown"}
              => call.ret = NoEvent

\* a product that was out of stock is available again: a medium STOCK_CHANGE
C19_Witness ==
    /\ StockReturned
    /\ call.args[2].stock_status = "low_stock"
    /\ call.args[3].stock_status = "out_of_stock"
    /\ call.ret # NoEvent
    /\ call.ret.event_type = "STOCK_CHANGE"
    /\ call.ret.severity = "medium"

-----------------------------------------------------------------------------
(* One pass for one pair: C20 *)

AuxTypes == {"PRICE_CHANGE", "REVIEW_SURGE", "STOCK_CHANGE"}

\* C20: one detection pass for one (product, category) pair returns between 0
\* and 4 events: at most one rank-type event and at most one each of
\* PRICE_CHANGE, REVIEW_SURGE and STOCK_CHANGE, and every event carries the
\* product_id and category_id of the pair.
C20_AtMostFourEvents ==
    Analysed =>
      /\ Len(pair_events) \in 0..4
      /\ Cardinality(RankEventsOf(pair_events)) <= 1
      /\ \A type \in AuxTypes : Cardinality(EventsOfType(pair_events, type)) <= 1
      /\ \A i \in 1..Len(pair_events) :
           /\ pair_events[i].event_type \in RankTypes \cup AuxTypes
           /\ pair_events[i].product_id = cur_pair[1]
           /\ pair_events[i].category_id = cur_pair[2]

\* a pass that returns all four kinds of event
C20_Witness ==
    /\ Analysed
    /\ Len(pair_events) = 4
    /\ Cardinality(RankEventsOf(pair_events)) = 1
    /\ \A type \in AuxTypes : Cardinality(EventsOfType(pair_events, type)) = 1

-----------------------------------------------------------------------------
(* Repeated runs and stored data: C21, C22 *)

\* the pair, type, severity and rank/price/review fields of an event
Evidence(e) ==
    [product_id |-> e.product_id, category_id |-> e.category_id,
     event_type |-> e.event_type, severity |-> e.severity,
     prev_rank |-> e.prev_rank, curr_rank |-> e.curr_rank,
     rank_change |-> e.rank_change, rank_change_pct |-> e.rank_change_pct,
     prev_price |-> e.prev_price, curr_price |-> e.curr_price,
     price_change_pct |-> e.price_change_pct,
     prev_review_count |-> e.prev_review_count,
     curr_review_count |-> e.curr_review_count,
     review_change |-> e.review_change]

\* how many times each piece of evidence occurs among the events, whatever
\* the order the pairs were analysed in
EvidenceOf(evs) ==
    LET kinds == {Evidence(evs[i]) : i \in 1..Len(evs)}
    IN [x \in kinds |-> Cardinality({i \in 1..Len(evs) : Evidence(evs[i]) = x})]

\* the snapshots a run at clock reading t can see
InLookback(t) ==
    [p \in AllPairs |->
       SelectSeq(tbl[p],
                 LAMBDA r : r.collected_at
                              >= t - (cfg.trend_analysis_hours
                                        + AMAZON_SCRAPE_INTERVAL_HOURS)
                                     * MinutesPerHour)]

DetectStep == pc = "running" \/ pc' = "running"

\* C22: detect_events is a pure producer: no step of it adds, updates or
\* deletes a stored snapshot or a stored event, and the events it returns are
\* unsaved, with context_collected and insight_generated both false.
C22_PureProducer ==
    [][DetectStep =>
         /\ UNCHANGED <<tbl, ranking_events, event_insights>>
         /\ pc' = "returned" =>
              \A i \in 1..Len(result'.events) :
                /\ ~result'.events[i].context_collected
                /\ ~result'.events[i].insight_generated]_vars

\* a second run has returned events while the first run's events, stored by
\* the caller, are all that is stored
C22_Witness ==
    /\ pc = "returned"
    /\ runs = 2
    /\ result.events # <<>>
    /\ ~past_results[2].saved
    /\ ranking_events = past_results[1].events
    /\ ranking_events # <<>>
    /\ \A i \in 1..Len(result.events) :
         ~result.events[i].context_collected /\ ~result.events[i].insight_generated


-----------------------------------------------------------------------------
(* Evidence carried by an event: C23 *)

\* the stock detector's answer had the two snapshots carried these statuses
StockEventFor(curr, prev) ==
    check_stock_change(cfg, call.args[1],
                       [call.args[2] EXCEPT !.stock_status = curr],
                       [call.args[3] EXCEPT !.stock_status = prev], clock)

\* C23: every event carries enough fields to reconstruct the evidence that
\* produced it: two different stock transitions never yield events equal in
\* all fields, so a STOCK_CHANGE event identifies the previous and the
\* current stock status.
C23_EvidenceIdentifiesSource ==
    (StockReturned /\ call.ret # NoEvent) =>
      \A curr, prev \in CallStocks :
        <<curr, prev>> # <<call.args[2].stock_status, call.args[3].stock_status>>
          => StockEventFor(curr, prev) # call.ret


-----------------------------------------------------------------------------
(* Construction: C24 *)

CtorReturned == call.method = "__init__" /\ call.returned

\* a configuration no detection can work with
InvalidConfig(a) ==
    \/ /\ a.trend_windows_hours # <<>>
       /\ \/ a.trend_windows_hours[1] = {}
          \/ \E h \in a.trend_windows_hours[1] : h <= 0
    \/ a.trend_min_data_points <= 0
    \/ /\ a.rank_thresholds # <<>>
       /\ \E i \in 1..Len(a.rank_thresholds[1]) :
            "range" \notin DOMAIN a.rank_thresholds[1][i]

\* C24: configuration errors are fatal at construction time: apart from an
\* empty or omitted rank threshold table, for which the detector is built and
\* applies threshold 15 to every rank, an invalid configuration (a tier entry
\* without a range, an empty window list, a non-positive window or minimum
\* data-point count) makes the construction of EventDetector fail.
C24_InvalidConfigFailsConstruction ==
    CtorReturned =>
      LET a == call.args[1]
      IN /\ InvalidConfig(a) => call.ret = Raise
         /\ (~InvalidConfig(a) /\ (a.rank_thresholds = <<>>
                                    \/ a.rank_thresholds[1] = <<>>))
              => /\ call.ret # Raise
                 /\ \A rank \in 1..MaxRank : get_rank_threshold(call.ret, rank) = 15


-----------------------------------------------------------------------------
(* Rank events and the latest snapshot: C27, C28 *)

\* the snapshots of the analysed pair were collected at distinct times;
\* rankings[1] is then the latest one
DistinctSnapshots ==
    \A i, j \in 1..Len(rankings) :
      i # j => rankings[i].collected_at # rankings[j].collected_at

\* C27: all windows are anchored at the most recent snapshot of the pair: for
\* snapshots with distinct collected_at every trend in the window map has
\* end_rank equal to the rank of the latest snapshot, and every rank event's
\* curr_rank equals the latest snapshot's rank, whichever window was selected.
C27_AnchoredAtLatest ==
    (Mapped /\ DistinctSnapshots) =>
      /\ \A w \in trend_map.windows :
           trend_map.trends[w].end_rank = rankings[1].rank
      /\ \A i \in RankEventsOf(pair_events) :
           pair_events[i].curr_rank = rankings[1].rank

\* two windows hold trends that start at different ranks, and the rank event
\* built from one of them ends at the latest snapshot's rank
C27_Witness ==
    /\ Mapped /\ DistinctSnapshots
    /\ \E v, w \in trend_map.windows :
         trend_map.trends[v].start_rank # trend_map.trends[w].start_rank
    /\ rankings[1].rank # rankings[2].rank
    /\ \E i \in RankEventsOf(pair_events) :
         pair_events[i].curr_rank = rankings[1].rank

\* C28: type and fields of a rank event agree: rank_change = curr_rank -
\* prev_rank; the type is RANK_SURGE or STEADY_RISE exactly when curr_rank <
\* prev_rank and RANK_DROP or STEADY_DECLINE exactly when curr_rank >
\* prev_rank; every STEADY_RISE/STEADY_DECLINE event comes from a trend with
\* consistency >= steady_consistency_min.
C28_TypeAgreesWithFields ==
    Analysed =>
      \A i \in RankEventsOf(pair_events) :
        LET e == pair_events[i]
        IN /\ e.rank_change = e.curr_rank - e.prev_rank
           /\ e.event_type \in {"RANK_SURGE", "STEADY_RISE"}
                <=> e.curr_rank < e.prev_rank
           /\ e.event_type \in {"RANK_DROP", "STEADY_DECLINE"}
                <=> e.curr_rank > e.prev_rank
           /\ e.event_type \in {"STEADY_RISE", "STEADY_DECLINE"}
                => /\ selection # NoSelection
                   /\ DerivedFrom(e, selection.trend)
                   /\ FracGE(selection.trend.consistency,
                             cfg.steady_consistency_min)

\* a RANK_DROP event whose trend went up before it fell: the rank got worse
\* and the consistency is below the steady floor
C28_Witness ==
    /\ Analysed
    /\ \E i \in RankEventsOf(pair_events) :
         /\ pair_events[i].event_type = "RANK_DROP"
         /\ pair_events[i].curr_rank > pair_events[i].prev_rank
         /\ pair_events[i].rank_change > 0
    /\ selection # NoSelection
    /\ ~FracGE(selection.trend.consistency, cfg.steady_consistency_min)


-----------------------------------------------------------------------------
(* The one-hour window under hourly collection: C29 *)

\* the pair's snapshots lie at least one scrape interval apart
SpacedByInterval ==
    \A i, j \in 1..Len(rankings) :
      i # j => Abs(rankings[i].collected_at - rankings[j].collected_at)
                 >= AMAZON_SCRAPE_INTERVAL_HOURS * MinutesPerHour

DefaultSurgeSetup ==
    /\ cfg.trend_min_data_points = EVENT_TREND_MIN_DATA_POINTS
    /\ cfg.surge_window_hours = EVENT_SURGE_WINDOW_HOURS

\* C29: with trend_min_data_points = 3 and the snapshots of a pair at least
\* one hour apart, the 1-hour window anchored at the latest snapshot holds at
\* most two snapshots, so it yields no trend and no event is selected through
\* the surge-window rule; a RANK_SURGE/RANK_DROP event then comes from the
\* fallback rule.
C29_SurgeWindowNeverFires ==
    (Mapped /\ DefaultSurgeSetup /\ SpacedByInterval) =>
      /\ Len(window_rankings(rankings, rankings[1].collected_at,
                             cfg.surge_window_hours)) <= 2
      /\ cfg.surge_window_hours \notin trend_map.windows
      /\ selection # NoSelection => selection.rule # "surge"
      /\ \A i \in RankEventsOf(pair_events) :
           pair_events[i].event_type \in {"RANK_SURGE", "RANK_DROP"}
             => selection.rule = "fallback"

\* snapshots exactly one hour apart: two of them fall into the 1-hour window
\* and a RANK_SURGE event is selected by the fallback
C29_Witness ==
    /\ Mapped /\ DefaultSurgeSetup /\ SpacedByInterval
    /\ Len(window_rankings(rankings, rankings[1].collected_at,
                           cfg.surge_window_hours)) = 2
    /\ selection # NoSelection
    /\ selection.rule = "fallback"
    /\ \E i \in RankEventsOf(pair_events) :
         pair_events[i].event_type = "RANK_SURGE"


-----------------------------------------------------------------------------
(* The event lifecycle: detection step of the monitor flow, context
   collection, insight generation *)

detector_vars ==
    <<cfg, tbl, clock, pc, todo, cur_pair, rankings, trend_map, selection,
      pair_events, events, result, runs, call, past_results>>

\* attributes of Settings that the callers of EventDetector read
SettingsAttrs ==
    {"EVENT_TREND_ANALYSIS_HOURS", "EVENT_TREND_MIN_DATA_POINTS",
     "EVENT_TREND_CONSISTENCY_THRESHOLD", "EVENT_TREND_WINDOWS_HOURS",
     "EVENT_SURGE_WINDOW_HOURS", "EVENT_STEADY_WINDOW_HOURS",
     "EVENT_STEADY_CONSISTENCY_MIN", "EVENT_RANK_THRESHOLDS",
     "EVENT_RANK_CHANGE_PCT_THRESHOLD", "EVENT_USE_HYBRID_THRESHOLD",
     "EVENT_PRICE_CHANGE_PCT_THRESHOLD", "EVENT_REVIEW_SURGE_THRESHOLD",
     "EVENT_LOOKBACK_DAYS", "EVENT_LOOKFORWARD_DAYS"}

\* keywords EventDetector.__init__ accepts
CtorKeywords ==
    DOMAIN DefaultArgs \cup {"product_model", "ranking_model", "event_model"}

\* EventDetector(keyword=settings.ATTRIBUTE, ...) as the monitor flow's
\* detection task and the test script write it
DetectionTaskArgs ==
    [rank_change_threshold |-> "EVENT_RANK_CHANGE_THRESHOLD",
     rank_change_pct_threshold |-> "EVENT_RANK_CHANGE_PCT_THRESHOLD",
     price_change_pct_threshold |-> "EVENT_PRICE_CHANGE_PCT_THRESHOLD",
     review_surge_threshold |-> "EVENT_REVIEW_SURGE_THRESHOLD"]

\* the outcome of evaluating the arguments and then binding the keywords
construct_detector(args) ==
    IF \E k \in DOMAIN args : args[k] \notin SettingsAttrs
    THEN "AttributeError"
    ELSE IF \E k \in DOMAIN args : k \notin CtorKeywords
    THEN "TypeError"
    ELSE "ok"

DetectionCallers == {"monitor_flow", "test_script"}
Runners == {"run_a", "run_b"}

IdleProc == [pc |-> "idle", ids |-> {}, event_id |-> 0, error |-> "None"]

EventIds == 1..Len(ranking_events)

\* event ids a caller may pass; the last one is never stored
CallerIds == 1..3

InsightsOf(id) == {k \in 1..Len(event_insights) : event_insights[k].event_id = id}

HighSeverity(e) == e.severity \in {"critical", "high"}

\* the events the scenario tester's run_detection stored for an input
stored_by_run_detection(inp) ==
    LET rks == CHOOSE s \in query_rankings(inp.cfg, inp.tbl, SinglePair, inp.clock) : TRUE
    IN analyze_category_trend(inp.cfg, SinglePair, rks, inp.clock).events

\* a rise to rank 3 with a price cut; the same with a review surge as well
FlowTables ==
    {<<Row(0, 25, 100, 100, "in_stock"), Row(30, 5, 100, 100, "in_stock"),
       Row(60, 3, 75, 100, "in_stock")>>,
     <<Row(0, 25, 100, 100, "in_stock"), Row(30, 5, 100, 100, "in_stock"),
       Row(60, 3, 100, 700, "in_stock")>>}

InitFlow ==
    \E rows \in FlowTables :
      LET inp == Input(UiDetector(TRUE), OneTable(rows), LastTime(rows))
      IN /\ InitDetector(inp, NoCall)
         /\ ranking_events = stored_by_run_detection(inp)
         /\ event_insights = <<>>
         /\ procs = [p \in DetectionCallers \cup Runners |-> IdleProc]

\* detect_ranking_events_task / test_event_detection: construct the detector,
\* then run detect_events and store what it returns
DetectionTask(caller) ==
    /\ caller \in DetectionCallers
    /\ procs[caller].pc = "idle"
    /\ LET outcome == construct_detector(DetectionTaskArgs)
       IN procs' = [procs EXCEPT
                      ![caller] = IF outcome = "ok"
                                  THEN [@ EXCEPT !.pc = "detecting"]
                                  ELSE [@ EXCEPT !.pc = "raised",
                                                 !.error = outcome]]
    /\ UNCHANGED <<ranking_events, event_insights>>
    /\ UNCHANGED detector_vars

\* context_collection_flow(event_id): load the event, collect, set the flag
ContextCollectionFlow(id) ==
    /\ id \in EventIds
    /\ ranking_events' = [ranking_events EXCEPT ![id].context_collected = TRUE]
    /\ UNCHANGED <<event_insights, procs>>
    /\ UNCHANGED detector_vars

StartRun(r, ids) ==
    /\ r \in Runners
    /\ procs[r].pc = "idle"
    /\ ids # {}
    /\ procs' = [procs EXCEPT ![r] = [pc |-> "select", ids |-> ids,
                                      event_id |-> 0, error |-> "None"]]
    /\ UNCHANGED <<ranking_events, event_insights>>
    /\ UNCHANGED detector_vars

\* insight_generation_flow(): find_events_ready_for_insight_task
find_events_ready_for_insight ==
    {id \in EventIds : /\ ranking_events[id].context_collected
                       /\ ~ranking_events[id].insight_generated
                       /\ HighSeverity(ranking_events[id])}

\* batch_generate_insights(db): its own selection
batch_selection ==
    {id \in EventIds : /\ ~ranking_events[id].insight_generated
                       /\ HighSeverity(ranking_events[id])}

InsightGenerationFlow(r) ==
    /\ r \in Runners
    /\ StartRun(r, find_events_ready_for_insight)

BatchGenerateInsights(r) ==
    /\ r \in Runners
    /\ StartRun(r, batch_selection)

\* generate_insight(db, event_id) called for one event
GenerateInsight(r, id) ==
    /\ id \in EventIds
    /\ StartRun(r, {id})

\* the next event of the run; generate_insight loads it and looks for an
\* insight: one found is returned, two make scalar_one_or_none raise
CheckExisting(r) ==
    /\ r \in Runners
    /\ procs[r].pc = "select"
    /\ \E id \in procs[r].ids :
         LET rest == procs[r].ids \ {id}
             found == Cardinality(InsightsOf(id))
         IN procs' = [procs EXCEPT
                        ![r] = IF found = 0
                               THEN [@ EXCEPT !.pc = "generate", !.ids = rest,
                                              !.event_id = id]
                               ELSE [@ EXCEPT !.pc = IF rest = {} THEN "idle"
                                                     ELSE "select",
                                              !.ids = rest,
                                              !.event_id = 0,
                                              !.error =
                                                 IF found > 1
                                                 THEN "MultipleResultsFound"
                                                 ELSE "None"]]
    /\ UNCHANGED <<ranking_events, event_insights>>
    /\ UNCHANGED detector_vars

\* the LLM call, which may fail, and db.add(insight); db.commit()
StoreInsight(r) ==
    /\ r \in Runners
    /\ procs[r].pc = "generate"
    /\ \E llm_ok \in BOOLEAN :
         IF llm_ok
         THEN /\ event_insights' =
                   Append(event_insights, [event_id |-> procs[r].event_id])
              /\ procs' = [procs EXCEPT ![r].pc = "flag"]
         ELSE /\ procs' = [procs EXCEPT
                             ![r] = [@ EXCEPT !.pc = IF procs[r].ids = {}
                                                     THEN "idle"
                                                     ELSE "select",
                                              !.event_id = 0]]
              /\ UNCHANGED event_insights
    /\ UNCHANGED ranking_events
    /\ UNCHANGED detector_vars

\* event.insight_generated = True; db.commit()
SetInsightGenerated(r) ==
    /\ r \in Runners
    /\ procs[r].pc = "flag"
    /\ ranking_events' =
         [ranking_events EXCEPT ![procs[r].event_id].insight_generated = TRUE]
    /\ procs' = [procs EXCEPT
                   ![r] = [@ EXCEPT !.pc = IF procs[r].ids = {}
                                           THEN "idle" ELSE "select",
                                    !.event_id = 0]]
    /\ UNCHANGED event_insights
    /\ UNCHANGED detector_vars

NextFlow ==
    \/ \E caller \in DetectionCallers : DetectionTask(caller)
    \/ \E id \in CallerIds : ContextCollectionFlow(id)
    \/ \E r \in Runners : InsightGenerationFlow(r)
    \/ \E r \in Runners : BatchGenerateInsights(r)
    \/ \E r \in Runners, id \in CallerIds : GenerateInsight(r, id)
    \/ \E r \in Runners : CheckExisting(r)
    \/ \E r \in Runners : StoreInsight(r)
    \/ \E r \in Runners : SetInsightGenerated(r)

SpecFlow == InitFlow /\ [][NextFlow]_vars

\* C25: in every state of the event lifecycle an event with
\* insight_generated = true also has context_collected = true: insight
\* generation, by the flow, by generate_insight or by
\* batch_generate_insights, only follows context collection.
C25_InsightOnlyAfterContext ==
    \A id \in EventIds :
      ranking_events[id].insight_generated => ranking_events[id].context_collected

\* C26: the detection step of the ranking monitor flow, and the test script
\* that mirrors it, constructs an EventDetector with the keywords
\* rank_change_threshold, rank_change_pct_threshold,
\* price_change_pct_threshold and review_surge_threshold read from settings,
\* and completes without error.
C26_DetectionStepCompletes ==
    \A caller \in DetectionCallers : procs[caller].pc # "raised"

\* C30: at most one EventInsight is ever stored per event, for repeated calls
\* and for any interleaving of two insight-generation runs that process the
\* same event.
C30_OneInsightPerEvent ==
    \A id \in EventIds : Cardinality(InsightsOf(id)) <= 1

=============================================================================
